---- MODULE Spec2Model ----
(***************************************************************************)
(* A model of the notebook-support utilities of dlmbl/unet (src/local.py): *)
(*   - pad_to_size             (symmetric padding of a tensor to a size)   *)
(*   - compute_receptive_field (the encoder/decoder field-of-view loop)    *)
(*   - NucleiDataset           (__init__, __len__, __getitem__)            *)
(* Each of the three is checked under a specification of its own: SpecPad, *)
(* SpecRF and SpecDS.  The variables of the other two stay at their        *)
(* initial values.                                                         *)
(***************************************************************************)
EXTENDS Integers, Sequences, FiniteSets, TLC

VARIABLES
    \* pad_to_size: the arguments of the call, its outcome, and the outcome
    \* of calling it again on what it returned
    small_size, target_size, pad_out, pad_again,
    \* compute_receptive_field: arguments, locals, program position
    depth, kernel_size, downsample_factor,
    fov, downsample_factor_prod, enc_layers, dec_layers, rf_pc,
    \* the root directory on disk and torch's process-wide random generator
    disk, rng,
    \* NucleiDataset: its fields
    samples, transform, img_transform, loaded_imgs, loaded_masks,
    \* NucleiDataset: the position in __init__ / __getitem__, their locals,
    \* the generator as the call in progress found it, the last call's result
    ds_pc, sample_ind, idx, image, mask, seed, entry_rng, ret

padVars == <<small_size, target_size, pad_out, pad_again>>
rfVars == <<depth, kernel_size, downsample_factor,
            fov, downsample_factor_prod, enc_layers, dec_layers, rf_pc>>
dsFields == <<samples, transform, img_transform, loaded_imgs, loaded_masks>>
dsLocals == <<sample_ind, idx, image, mask, seed, entry_rng, ret>>
dsVars == <<disk, rng, dsFields, ds_pc, dsLocals>>
vars == <<padVars, rfVars, dsVars>>

\* Python's None: as an object (an empty list slot, an unset local, no result
\* yet) and as the value of an optional transform argument.
None == [kind |-> "None"]
NoTransform == "None"

(***************************************************************************)
(* Bounds of the model.                                                    *)
(***************************************************************************)
MaxRank == 3
MaxDim == 4
MaxDepth == 4
MaxKernel == 4
MaxFactor == 3
MaxSamples == 2
MaxSide == 2
MaxSeed == 1
RngPeriod == 4

\* The sizes of the tensors handed to pad_to_size, and the target sizes:
\* a target may be smaller than, equal to or larger than the source in every
\* dimension, and of another rank.
SizesOfRank(r, m) == [1..r -> 1..m]
SmallSizes == UNION {SizesOfRank(r, MaxDim) : r \in 1..MaxRank}
TargetSizes == UNION {SizesOfRank(r, MaxDim + 2) : r \in 1..MaxRank}

(***************************************************************************)
(* pad_to_size                                                             *)
(***************************************************************************)

\* torch.Size is a tuple: `a > b` is Python's lexicographic tuple order (the
\* first differing element decides; a proper prefix is the smaller one).
RECURSIVE TupleGT(_, _)
TupleGT(a, b) ==
    IF a = <<>> THEN FALSE
    ELSE IF b = <<>> THEN TRUE
    ELSE IF Head(a) # Head(b) THEN Head(a) > Head(b)
    ELSE TupleGT(Tail(a), Tail(b))

\* math.floor(x / 2) and math.ceil(x / 2) of an integer x (true division).
FloorHalf(x) == x \div 2
CeilHalf(x) == -((-x) \div 2)

\* The loop of lines 102-104: zip() stops at the shorter of the two, and each
\* dimension appends its floor amount and then its ceil amount.
RECURSIVE PadTwoside(_, _)
PadTwoside(shape, target) ==
    IF shape = <<>> \/ target = <<>> THEN <<>>
    ELSE <<FloorHalf(Head(target) - Head(shape)),
           CeilHalf(Head(target) - Head(shape))>>
         \o PadTwoside(Tail(shape), Tail(target))

\* pad_twoside[::-1] (faulty variant: the list handed over as built).
NotReversed(s) == s
Reversed(s) == [i \in 1..Len(s) |-> s[Len(s) + 1 - i]]

\* torch.nn.functional.pad(input, pad) in constant mode: pad is
\* (left, right) of the last dimension, then of the one before it, and so
\* on; a negative amount crops; a negative resulting size is an error.
\* The result records, per dimension, the amounts put before and after it.
FPadBefore(size, pad, d) ==
    LET k == Len(size) - d IN IF 2 * k + 2 <= Len(pad) THEN pad[2 * k + 1] ELSE 0
FPadAfter(size, pad, d) ==
    LET k == Len(size) - d IN IF 2 * k + 2 <= Len(pad) THEN pad[2 * k + 2] ELSE 0
FPad(size, pad) ==
    LET before == [d \in 1..Len(size) |-> FPadBefore(size, pad, d)]
        after == [d \in 1..Len(size) |-> FPadAfter(size, pad, d)]
        out == [d \in 1..Len(size) |-> size[d] + before[d] + after[d]]
    IN  IF Len(pad) > 2 * Len(size) \/ \E d \in 1..Len(size) : out[d] < 0
        THEN [kind |-> "RuntimeError"]
        ELSE [kind |-> "tensor", obj |-> "new", size |-> out,
              before |-> before, after |-> after]

\* The size check of line 96.
SizeCheckFails(size, target) == TupleGT(size, target)

\* The test of line 99 (faulty variant: the early return left out).
NeverEqual(size, target) == FALSE
SizesEqual(size, target) == size = target

\* pad_to_size(small_tensor, target_size), for a tensor of the given size.
\* obj tells whether the returned tensor is the argument itself or a new one.
pad_to_size(size, target) ==
    IF SizeCheckFails(size, target) THEN [kind |-> "ValueError"]
    ELSE IF SizesEqual(size, target)
    THEN [kind |-> "tensor", obj |-> "same", size |-> size,
          before |-> [d \in 1..Len(size) |-> 0],
          after |-> [d \in 1..Len(size) |-> 0]]
    ELSE FPad(size, Reversed(PadTwoside(size, target)))

PadIdle == [kind |-> "pending"]

InitPadVars ==
    /\ small_size = <<>>
    /\ target_size = <<>>
    /\ pad_out = PadIdle
    /\ pad_again = PadIdle

\* A call pad_to_size(small_tensor, target_size).
PadCall ==
    /\ pad_out = PadIdle
    /\ \E s \in SmallSizes, t \in TargetSizes :
          /\ small_size' = s
          /\ target_size' = t
          /\ pad_out' = pad_to_size(s, t)
    /\ UNCHANGED <<pad_again, rfVars, dsVars>>

\* A second call, on the tensor the first one returned and the same target.
PadCallAgain ==
    /\ pad_out.kind = "tensor"
    /\ pad_again = PadIdle
    /\ pad_again' = pad_to_size(pad_out.size, target_size)
    /\ UNCHANGED <<small_size, target_size, pad_out, rfVars, dsVars>>

(***************************************************************************)
(* compute_receptive_field                                                 *)
(***************************************************************************)

\* Two convolutions: fov + 2 * (kernel_size - 1) * downsample_factor_prod
\* (faulty variant: the sign of kernel_size - 1 slipped).
TwoConvsSignSlip(f, k, p) == f + 2 * (1 - k) * p
TwoConvs(f, k, p) == f + 2 * (k - 1) * p

\* range(depth - 1) and range(0, depth - 1)[::-1] both have this many items
\* (faulty variant: range(depth)).
StagesOffByOne(d) == IF d > 0 THEN d ELSE 0
Stages(d) == IF d - 1 > 0 THEN d - 1 ELSE 0

\* downsample_factor_prod /= downsample_factor.  The quotient of Python's
\* true division: the product is a power of the factor, so the quotient is
\* that whole number (as a float).
UpsampleProd(p, df) == p \div df

\* The locals at line 162.
RFStart == [fov |-> 1, p |-> 1]

\* The body of the encoder loop, lines 166-169.
EncoderStage(s, k, df) ==
    [fov |-> TwoConvs(s.fov, k, s.p) * df, p |-> s.p * df]

\* Line 171.
BottomLayer(s, k) == [fov |-> TwoConvs(s.fov, k, s.p), p |-> s.p]

\* The body of the decoder loop, lines 176-178 (faulty variant: the widening
\* done before the upsampling).
DecoderStageWidenFirst(s, k, df) ==
    [fov |-> TwoConvs(s.fov, k, s.p), p |-> UpsampleProd(s.p, df)]
DecoderStage(s, k, df) ==
    LET p == UpsampleProd(s.p, df) IN [fov |-> TwoConvs(s.fov, k, p), p |-> p]

\* The function as a whole: n passes of each loop around the bottom layer.
RECURSIVE EncoderLoop(_, _, _, _)
EncoderLoop(n, s, k, df) ==
    IF n = 0 THEN s ELSE EncoderLoop(n - 1, EncoderStage(s, k, df), k, df)
RECURSIVE DecoderLoop(_, _, _, _)
DecoderLoop(n, s, k, df) ==
    IF n = 0 THEN s ELSE DecoderLoop(n - 1, DecoderStage(s, k, df), k, df)
compute_receptive_field(d, k, df) ==
    DecoderLoop(Stages(d),
                BottomLayer(EncoderLoop(Stages(d), RFStart, k, df), k),
                k, df).fov

InitRFVars ==
    /\ depth = 0
    /\ kernel_size = 0
    /\ downsample_factor = 0
    /\ fov = 0
    /\ downsample_factor_prod = 0
    /\ enc_layers = 0
    /\ dec_layers = 0
    /\ rf_pc = "idle"

RFLocals == [fov |-> fov, p |-> downsample_factor_prod]

\* The call, and lines 161-162.
RFCall ==
    /\ rf_pc = "idle"
    /\ \E d \in 1..MaxDepth, k \in 1..MaxKernel, df \in 1..MaxFactor :
          /\ depth' = d
          /\ kernel_size' = k
          /\ downsample_factor' = df
    /\ fov' = RFStart.fov
    /\ downsample_factor_prod' = RFStart.p
    /\ enc_layers' = 0
    /\ dec_layers' = 0
    /\ rf_pc' = "encoder"
    /\ UNCHANGED <<padVars, dsVars>>

\* One pass of the encoder loop, lines 164-169.
RFEncoderStage ==
    /\ rf_pc = "encoder"
    /\ enc_layers < Stages(depth)
    /\ LET s == EncoderStage(RFLocals, kernel_size, downsample_factor)
       IN  fov' = s.fov /\ downsample_factor_prod' = s.p
    /\ enc_layers' = enc_layers + 1
    /\ UNCHANGED <<depth, kernel_size, downsample_factor, dec_layers, rf_pc>>
    /\ UNCHANGED <<padVars, dsVars>>

\* The bottom layer, line 171, once the encoder loop is exhausted.
RFBottom ==
    /\ rf_pc = "encoder"
    /\ enc_layers >= Stages(depth)
    /\ fov' = BottomLayer(RFLocals, kernel_size).fov
    /\ rf_pc' = "decoder"
    /\ UNCHANGED <<depth, kernel_size, downsample_factor,
                   downsample_factor_prod, enc_layers, dec_layers>>
    /\ UNCHANGED <<padVars, dsVars>>

\* One pass of the decoder loop, lines 174-178.
RFDecoderStage ==
    /\ rf_pc = "decoder"
    /\ dec_layers < Stages(depth)
    /\ LET s == DecoderStage(RFLocals, kernel_size, downsample_factor)
       IN  fov' = s.fov /\ downsample_factor_prod' = s.p
    /\ dec_layers' = dec_layers + 1
    /\ UNCHANGED <<depth, kernel_size, downsample_factor, enc_layers, rf_pc>>
    /\ UNCHANGED <<padVars, dsVars>>

\* return fov, line 180.
RFReturn ==
    /\ rf_pc = "decoder"
    /\ dec_layers >= Stages(depth)
    /\ rf_pc' = "done"
    /\ UNCHANGED <<depth, kernel_size, downsample_factor,
                   fov, downsample_factor_prod, enc_layers, dec_layers>>
    /\ UNCHANGED <<padVars, dsVars>>

(***************************************************************************)
(* NucleiDataset                                                           *)
(***************************************************************************)

\* The root directory: entries 1..n, each a sample subdirectory holding
\* image.tif and mask.tif (an image raster of some height and of width 1,
\* and a mask raster of the same size or one row taller: nothing checks
\* that the two match), or a stray entry holding neither file.
RasterSizes == {<<h, 1>> : h \in 1..MaxSide}
Entries ==
    {[kind |-> "sample", image |-> r, mask |-> <<r[1] + extra, r[2]>>] :
        r \in RasterSizes, extra \in {0, 1}}
        \cup {[kind |-> "stray"]}
Disks == UNION {[1..n -> Entries] : n \in 0..MaxSamples}

\* The paired transforms and the image-only transforms a caller may pass.
PairedTransforms == {NoTransform, "RandomRot90", "RandomApplyRot90"}
ImageTransforms == {NoTransform, "AddNoise"}

\* torch.seed() draws the seed from a nondeterministic source.
Seeds == 0..MaxSeed

\* The generator: the seed it was last set to and how many numbers it has
\* handed out since (its state cycles).  Rand is the number it hands out.
ManualSeed(s) == [seed |-> s, pos |-> 0]
Advance(g) == [seed |-> g.seed, pos |-> (g.pos + 1) % RngPeriod]
Rand(g) == (((g.seed + 1) * (g.pos + 2)) \div 2) % 2

\* os.listdir(root_dir): the entries, in arbitrary order (line 28).
Listings(d) ==
    {l \in [DOMAIN d -> DOMAIN d] : \A i, j \in DOMAIN d : l[i] = l[j] => i = j}

\* Image.open(path) and image.load(): a PIL image, 8 bits per pixel.
ImageOpen(d, name, file) ==
    [path |-> <<name, file>>,
     size |-> IF file = "image.tif" THEN d[name].image ELSE d[name].mask,
     range |-> <<0, 255>>]

\* transforms.ToTensor(): channels first, values scaled from 0..255 to 0..1.
ToTensor(pil) ==
    [path |-> pil.path, size |-> <<1, pil.size[1], pil.size[2]>>,
     range |-> <<pil.range[1] \div 255, pil.range[2] \div 255>>,
     hist |-> <<>>]

\* transforms.Normalize([0.5], [0.5]): (x - 0.5) / 0.5 = 2x - 1.
Normalize(t) ==
    [t EXCEPT !.range = <<2 * t.range[1] - 1, 2 * t.range[2] - 1>>]

\* inp_transforms, lines 35-41 (Grayscale keeps the one channel).
inp_transforms(pil) == Normalize(ToTensor(pil))

\* The two paths of one sample, lines 46-48 and 52-54 (faulty variant: the
\* mask path built from the first listed sample).
ImagePath(smp, ind) == <<smp[ind + 1], "image.tif">>
MaskPathOfFirst(smp, ind) == <<smp[1], "mask.tif">>
MaskPath(smp, ind) == <<smp[ind + 1], "mask.tif">>

\* Python's list indexing: 0..n-1 from the front, -n..-1 from the back.
InRange(list, i) == -Len(list) <= i /\ i < Len(list)
ListItem(list, i) == IF i >= 0 THEN list[i + 1] ELSE list[Len(list) + i + 1]

\* A rotation by a quarter turn swaps height and width.
Rot90(x) == [x EXCEPT !.size = <<x.size[1], x.size[3], x.size[2]>>]
Stamp(x, what) == [x EXCEPT !.hist = Append(@, what)]

\* self.transform(x) with the generator in state g: the output and the
\* generator afterwards.  RandomRot90 draws once and rotates on a 1;
\* RandomApplyRot90 draws once, and on a 1 draws again and rotates on a 1.
ApplyTransform(t, x, g) ==
    IF t = "RandomRot90"
    THEN [out |-> Stamp(IF Rand(g) = 1 THEN Rot90(x) ELSE x, <<t, Rand(g)>>),
          rng |-> Advance(g)]
    ELSE IF t = "RandomApplyRot90"
    THEN IF Rand(g) = 0
         THEN [out |-> Stamp(x, <<t, 0>>), rng |-> Advance(g)]
         ELSE [out |-> Stamp(IF Rand(Advance(g)) = 1 THEN Rot90(x) ELSE x,
                             <<t, 1, Rand(Advance(g))>>),
               rng |-> Advance(Advance(g))]
    ELSE [out |-> x, rng |-> g]

\* self.img_transform(image): AddNoise draws once.
ApplyImgTransform(t, x, g) ==
    IF t = "AddNoise"
    THEN [out |-> Stamp(x, <<t, Rand(g)>>), rng |-> Advance(g)]
    ELSE [out |-> x, rng |-> g]

\* Line 69 (faulty variant: the seeding done whether or not a transform is
\* set).
SeedsAlways(t) == TRUE
HasTransform(t) == t # NoTransform

\* Line 75: torch.manual_seed(seed) before the mask's application (faulty
\* variant: the generator left where the image's application left it).
GeneratorKept(g, s) == g
ReseedForMask(g, s) == ManualSeed(s)

\* Line 74 rebinds the local `image`: the list keeps the tensor loaded at
\* construction (faulty variant: the transformed image stored back).
ImgsStoredBack(imgs, i, out) ==
    [imgs EXCEPT ![IF i >= 0 THEN i + 1 ELSE Len(imgs) + i + 1] = out]
ImgsAfterTransform(imgs, i, out) == imgs

InitDSVars ==
    /\ disk \in Disks
    /\ rng = ManualSeed(0)
    /\ samples = <<>>
    /\ transform = NoTransform
    /\ img_transform = NoTransform
    /\ loaded_imgs = <<>>
    /\ loaded_masks = <<>>
    /\ ds_pc = "new"
    /\ sample_ind = 0
    /\ idx = 0
    /\ image = None
    /\ mask = None
    /\ seed = None
    /\ entry_rng = None
    /\ ret = None

\* NucleiDataset(root_dir, transform, img_transform), lines 27-44.
Construct ==
    /\ ds_pc = "new"
    /\ \E t \in PairedTransforms, it \in ImageTransforms, l \in Listings(disk) :
          /\ samples' = l
          /\ transform' = t
          /\ img_transform' = it
    /\ loaded_imgs' = [i \in DOMAIN disk |-> None]
    /\ loaded_masks' = [i \in DOMAIN disk |-> None]
    /\ sample_ind' = 0
    /\ ds_pc' = "loading"
    /\ UNCHANGED <<disk, rng, idx, image, mask, seed, entry_rng, ret>>
    /\ UNCHANGED <<padVars, rfVars>>

\* One pass of the loading loop, lines 45-57.
LoadSample ==
    /\ ds_pc = "loading"
    /\ sample_ind < Len(samples)
    /\ disk[samples[sample_ind + 1]].kind = "sample"
    /\ LET ip == ImagePath(samples, sample_ind)
           mp == MaskPath(samples, sample_ind)
       IN  /\ loaded_imgs' = [loaded_imgs EXCEPT ![sample_ind + 1] =
                                 inp_transforms(ImageOpen(disk, ip[1], ip[2]))]
           /\ loaded_masks' = [loaded_masks EXCEPT ![sample_ind + 1] =
                                 ToTensor(ImageOpen(disk, mp[1], mp[2]))]
    /\ sample_ind' = sample_ind + 1
    /\ UNCHANGED <<disk, rng, samples, transform, img_transform, ds_pc,
                   idx, image, mask, seed, entry_rng, ret>>
    /\ UNCHANGED <<padVars, rfVars>>

\* Image.open raises on an entry that holds no image.tif (line 49): the
\* exception leaves __init__ and no dataset exists.
LoadRaises ==
    /\ ds_pc = "loading"
    /\ sample_ind < Len(samples)
    /\ disk[samples[sample_ind + 1]].kind = "stray"
    /\ ds_pc' = "raised"
    /\ UNCHANGED <<disk, rng, dsFields, dsLocals>>
    /\ UNCHANGED <<padVars, rfVars>>

\* The loop is exhausted and __init__ returns.
InitReturn ==
    /\ ds_pc = "loading"
    /\ sample_ind >= Len(samples)
    /\ ds_pc' = "ready"
    /\ UNCHANGED <<disk, rng, dsFields, dsLocals>>
    /\ UNCHANGED <<padVars, rfVars>>

\* len(dataset), lines 60-61.
DatasetLen ==
    /\ ds_pc = "ready"
    /\ ret' = [kind |-> "len", n |-> Len(samples)]
    /\ entry_rng' = rng
    /\ UNCHANGED <<disk, rng, dsFields, ds_pc, sample_ind, idx, image, mask, seed>>
    /\ UNCHANGED <<padVars, rfVars>>

IndexArgs == -1..Len(samples)

\* dataset[i], lines 67-69: the two list reads and the test of transform.
GetItem ==
    /\ ds_pc = "ready"
    /\ \E i \in IndexArgs :
          /\ InRange(loaded_imgs, i)
          /\ idx' = i
          /\ image' = ListItem(loaded_imgs, i)
          /\ mask' = ListItem(loaded_masks, i)
    /\ entry_rng' = rng
    /\ ret' = None
    /\ seed' = None
    /\ ds_pc' = IF HasTransform(transform) THEN "l72" ELSE "l77"
    /\ UNCHANGED <<disk, rng, dsFields, sample_ind>>
    /\ UNCHANGED <<padVars, rfVars>>

\* dataset[i] with i out of range: line 67 raises IndexError.
GetItemIndexError ==
    /\ ds_pc = "ready"
    /\ \E i \in IndexArgs :
          /\ ~InRange(loaded_imgs, i)
          /\ idx' = i
    /\ entry_rng' = rng
    /\ ret' = [kind |-> "IndexError"]
    /\ UNCHANGED <<disk, rng, dsFields, ds_pc, sample_ind, image, mask, seed>>
    /\ UNCHANGED <<padVars, rfVars>>

\* seed = torch.seed(), line 72: the generator is set to a fresh
\* nondeterministic seed, which is returned.
TorchSeed ==
    /\ ds_pc = "l72"
    /\ \E s \in Seeds :
          /\ seed' = s
          /\ rng' = ManualSeed(s)
    /\ ds_pc' = "l73"
    /\ UNCHANGED <<disk, dsFields, sample_ind, idx, image, mask, entry_rng, ret>>
    /\ UNCHANGED <<padVars, rfVars>>

\* torch.manual_seed(seed), line 73.
ManualSeedForImage ==
    /\ ds_pc = "l73"
    /\ rng' = ManualSeed(seed)
    /\ ds_pc' = "l74"
    /\ UNCHANGED <<disk, dsFields, dsLocals>>
    /\ UNCHANGED <<padVars, rfVars>>

\* image = self.transform(image), line 74.
TransformImage ==
    /\ ds_pc = "l74"
    /\ LET r == ApplyTransform(transform, image, rng)
       IN  /\ image' = r.out
           /\ rng' = r.rng
           /\ loaded_imgs' = ImgsAfterTransform(loaded_imgs, idx, r.out)
    /\ ds_pc' = "l75"
    /\ UNCHANGED <<disk, samples, transform, img_transform, loaded_masks,
                   sample_ind, idx, mask, seed, entry_rng, ret>>
    /\ UNCHANGED <<padVars, rfVars>>

\* torch.manual_seed(seed), line 75.
ManualSeedForMask ==
    /\ ds_pc = "l75"
    /\ rng' = ReseedForMask(rng, seed)
    /\ ds_pc' = "l76"
    /\ UNCHANGED <<disk, dsFields, dsLocals>>
    /\ UNCHANGED <<padVars, rfVars>>

\* mask = self.transform(mask), line 76.
TransformMask ==
    /\ ds_pc = "l76"
    /\ LET r == ApplyTransform(transform, mask, rng)
       IN  /\ mask' = r.out
           /\ rng' = r.rng
    /\ ds_pc' = "l77"
    /\ UNCHANGED <<disk, dsFields, sample_ind, idx, image, seed, entry_rng, ret>>
    /\ UNCHANGED <<padVars, rfVars>>

\* Lines 77-78: the image-only transform, when one is set.
ImgTransform ==
    /\ ds_pc = "l77"
    /\ IF img_transform # NoTransform
       THEN LET r == ApplyImgTransform(img_transform, image, rng)
            IN  image' = r.out /\ rng' = r.rng
       ELSE UNCHANGED <<image, rng>>
    /\ ds_pc' = "l79"
    /\ UNCHANGED <<disk, dsFields, sample_ind, idx, mask, seed, entry_rng, ret>>
    /\ UNCHANGED <<padVars, rfVars>>

\* return image, mask, line 79.
GetItemReturn ==
    /\ ds_pc = "l79"
    /\ ret' = [kind |-> "pair", image |-> image, mask |-> mask]
    /\ image' = None
    /\ mask' = None
    /\ ds_pc' = "ready"
    /\ UNCHANGED <<disk, rng, dsFields, sample_ind, idx, seed, entry_rng>>
    /\ UNCHANGED <<padVars, rfVars>>

(***************************************************************************)
(* Specifications                                                          *)
(***************************************************************************)
InitDS == InitPadVars /\ InitRFVars /\ InitDSVars

InitIdleDS ==
    /\ disk = <<>>
    /\ rng = ManualSeed(0)
    /\ samples = <<>>
    /\ transform = NoTransform
    /\ img_transform = NoTransform
    /\ loaded_imgs = <<>>
    /\ loaded_masks = <<>>
    /\ ds_pc = "new"
    /\ sample_ind = 0
    /\ idx = 0
    /\ image = None
    /\ mask = None
    /\ seed = None
    /\ entry_rng = None
    /\ ret = None

InitPad == InitPadVars /\ InitRFVars /\ InitIdleDS
NextPad == PadCall \/ PadCallAgain
SpecPad == InitPad /\ [][NextPad]_vars

InitRF == InitPadVars /\ InitRFVars /\ InitIdleDS
NextRF == RFCall \/ RFEncoderStage \/ RFBottom \/ RFDecoderStage \/ RFReturn
SpecRF == InitRF /\ [][NextRF]_vars

NextDS ==
    \/ Construct \/ LoadSample \/ LoadRaises \/ InitReturn
    \/ DatasetLen \/ GetItem \/ GetItemIndexError
    \/ TorchSeed \/ ManualSeedForImage \/ TransformImage
    \/ ManualSeedForMask \/ TransformMask \/ ImgTransform \/ GetItemReturn
SpecDS == InitDS /\ [][NextDS]_vars

(***************************************************************************)
(* Properties of pad_to_size (under SpecPad)                               *)
(***************************************************************************)
SameRank == Len(small_size) = Len(target_size)
PadCalled == pad_out # PadIdle
Dims == 1..Len(small_size)
AbsDiff(a, b) == IF a >= b THEN a - b ELSE b - a
ZeroPads(n) == [d \in 1..n |-> 0]

\* C1: whenever the target is smaller than the source in some dimension (the
\* two of the same rank), the call fails with the ValueError and returns no
\* tensor.
C1_SmallerTargetRaises ==
    (PadCalled /\ SameRank /\ \E d \in Dims : target_size[d] < small_size[d])
        => pad_out.kind = "ValueError"

\* C2: for a same-rank target that is at least the source in every dimension
\* and differs from it, the call returns a tensor of exactly the target size;
\* the two amounts put on a dimension sum to that dimension's size
\* difference and differ by at most 1 (the floor and the ceil of its half);
\* (1,4,4) to (1,6,6) pads the leading dimension by 0 and the two spatial
\* ones by 1 on each side.
C2_SymmetricPadding ==
    (/\ PadCalled /\ SameRank
     /\ \A d \in Dims : target_size[d] >= small_size[d]
     /\ target_size # small_size)
        => /\ pad_out.kind = "tensor"
           /\ pad_out.size = target_size
           /\ \A d \in Dims :
                 /\ pad_out.before[d] + pad_out.after[d]
                        = target_size[d] - small_size[d]
                 /\ AbsDiff(pad_out.before[d], pad_out.after[d]) <= 1
                 /\ pad_out.before[d] >= 0 /\ pad_out.after[d] >= 0
           /\ (small_size = <<1, 4, 4>> /\ target_size = <<1, 6, 6>>)
                 => /\ pad_out.before = <<0, 1, 1>>
                    /\ pad_out.after = <<0, 1, 1>>

C2_Witness ==
    /\ small_size = <<1, 4, 4>> /\ target_size = <<1, 6, 6>>
    /\ pad_out.kind = "tensor" /\ pad_out.obj = "new"

\* "pad_to_size(y, t) returns y": the second call returns a tensor of y's
\* size to which nothing was added and from which nothing was cropped.
ReturnsUnchanged(r, size) ==
    /\ r.kind = "tensor"
    /\ r.size = size
    /\ r.before = ZeroPads(Len(size))
    /\ r.after = ZeroPads(Len(size))

\* C3 as stated: a tensor padded to its own size comes back as the very same
\* tensor, and for EVERY source and target for which the call returns y, the
\* call on y and the same target returns y.
C3_IdempotentEveryTarget ==
    /\ (PadCalled /\ small_size = target_size)
          => (pad_out.kind = "tensor" /\ pad_out.obj = "same"
              /\ pad_out.size = small_size)
    /\ (pad_out.kind = "tensor" /\ pad_again # PadIdle)
          => ReturnsUnchanged(pad_again, pad_out.size)

\* C3 amended: the same, for a source and a target of the same rank; the
\* second call then returns the very tensor it was given.
C3_IdempotentSameRank ==
    /\ (PadCalled /\ small_size = target_size)
          => (pad_out.kind = "tensor" /\ pad_out.obj = "same"
              /\ pad_out.size = small_size)
    /\ (SameRank /\ pad_out.kind = "tensor")
          => /\ pad_out.size = target_size
             /\ pad_again # PadIdle
                   => (ReturnsUnchanged(pad_again, pad_out.size)
                       /\ pad_again.obj = "same")

C3_Witness ==
    /\ SameRank /\ small_size # target_size
    /\ pad_out.kind = "tensor" /\ pad_out.obj = "new"
    /\ pad_again.kind = "tensor" /\ pad_again.obj = "same"

(***************************************************************************)
(* Properties of compute_receptive_field (under SpecRF)                    *)
(***************************************************************************)
RECURSIVE SumPow(_, _, _)
\* df^lo + ... + df^hi (0 when hi < lo)
SumPow(df, lo, hi) == IF hi < lo THEN 0 ELSE df ^ hi + SumPow(df, lo, hi - 1)

\* C7: for depth, kernel_size, downsample_factor >= 1 the returned field is
\* positive, no larger than the field of depth + 1, and no larger than the
\* field of kernel_size + 1.
C7_PositiveMonotone ==
    rf_pc = "done"
        => /\ fov > 0
           /\ fov = compute_receptive_field(depth, kernel_size, downsample_factor)
           /\ fov <= compute_receptive_field(depth + 1, kernel_size, downsample_factor)
           /\ fov <= compute_receptive_field(depth, kernel_size + 1, downsample_factor)

C7_Witness ==
    /\ rf_pc = "done" /\ depth >= 2 /\ kernel_size >= 2 /\ downsample_factor >= 2
    /\ fov < compute_receptive_field(depth + 1, kernel_size, downsample_factor)
    /\ fov < compute_receptive_field(depth, kernel_size + 1, downsample_factor)

\* C8: at depth 1 no encoder stage and no decoder stage runs, and the result
\* is 1 + 2 * (kernel_size - 1) whatever the downsample factor; 5 for
\* kernel_size 3 and downsample_factor 2.
C8_DepthOne ==
    (rf_pc # "idle" /\ depth = 1)
        => /\ enc_layers = 0 /\ dec_layers = 0
           /\ rf_pc = "done"
                 => /\ fov = 1 + 2 * (kernel_size - 1)
                    /\ (kernel_size = 3 /\ downsample_factor = 2) => fov = 5

C8_Witness ==
    /\ rf_pc = "done" /\ depth = 1 /\ kernel_size = 3 /\ downsample_factor = 2
    /\ fov = 5

\* C10: encoder stage i widens by 2*(kernel_size-1)*df^i and then multiplies
\* field and product by df; the bottom widens at df^(depth-1); decoder stage
\* i divides the product back to df^i first and widens by the same amount as
\* encoder stage i; the product is 1 again at return and the result is
\* df^(depth-1) * (1 + 2*(k-1)*depth) + 2*(k-1) * (df^0 + ... + df^(depth-2)).
C10_ClosedForm ==
    LET c == 2 * (kernel_size - 1)
        df == downsample_factor
        top == df ^ (depth - 1) * (1 + c * depth)
    IN  /\ rf_pc = "encoder"
           => /\ enc_layers <= depth - 1
              /\ downsample_factor_prod = df ^ enc_layers
              /\ fov = df ^ enc_layers * (1 + c * enc_layers)
        /\ rf_pc \in {"decoder", "done"}
           => /\ enc_layers = depth - 1
              /\ dec_layers <= depth - 1
              /\ downsample_factor_prod = df ^ (depth - 1 - dec_layers)
              /\ fov = top + c * SumPow(df, depth - 1 - dec_layers, depth - 2)
        /\ rf_pc = "done"
           => /\ dec_layers = depth - 1
              /\ downsample_factor_prod = 1
              /\ fov = top + c * SumPow(df, 0, depth - 2)

C10_Witness ==
    /\ rf_pc = "done" /\ depth = 3 /\ kernel_size = 3 /\ downsample_factor = 2
    /\ enc_layers = 2 /\ dec_layers = 2
    /\ fov = 64

(***************************************************************************)
(* Properties of NucleiDataset (under SpecDS)                              *)
(***************************************************************************)
Constructed == ds_pc \notin {"new", "loading", "raised"}
NumEntries == Cardinality(DOMAIN disk)
Untransformed == transform = NoTransform /\ img_transform = NoTransform
Returned == ds_pc = "ready" /\ ret.kind = "pair"
StoredImage == ListItem(loaded_imgs, idx)
StoredMask == ListItem(loaded_masks, idx)

\* C4: once construction over a root of N sample subdirectories has
\* completed, and after any later calls, len() is N, both lists have N
\* filled slots, slot i of each was loaded from image.tif / mask.tif of
\* samples[i], and an access without transforms returns exactly that pair.
C4_LoadedAligned ==
    Constructed
        => /\ Len(samples) = NumEntries
           /\ {samples[i] : i \in 1..Len(samples)} = DOMAIN disk
           /\ Len(loaded_imgs) = NumEntries
           /\ Len(loaded_masks) = NumEntries
           /\ \A i \in 1..NumEntries :
                 /\ loaded_imgs[i] # None
                 /\ loaded_masks[i] # None
                 /\ loaded_imgs[i].path = <<samples[i], "image.tif">>
                 /\ loaded_masks[i].path = <<samples[i], "mask.tif">>
                 /\ loaded_imgs[i].size = <<1>> \o disk[samples[i]].image
                 /\ loaded_masks[i].size = <<1>> \o disk[samples[i]].mask
           /\ ret.kind = "len" => ret.n = NumEntries
           /\ (Returned /\ Untransformed /\ idx >= 0)
                 => /\ ret.image = loaded_imgs[idx + 1]
                    /\ ret.mask = loaded_masks[idx + 1]
                    /\ ret.image.path = <<samples[idx + 1], "image.tif">>
                    /\ ret.mask.path = <<samples[idx + 1], "mask.tif">>

C4_Witness ==
    /\ Returned /\ Untransformed
    /\ samples = <<2, 1>> /\ idx = 1
    /\ ret.image.path = <<1, "image.tif">>
    /\ ret.mask.path = <<1, "mask.tif">>

\* C5: in a call with a paired transform, the generator stands at one and
\* the same freshly set seed when the transform is applied to the image and
\* when it is applied to the mask, whatever the image's application drew;
\* both applications therefore make the same draws; the image-only
\* transform comes after both and touches the image alone; and image and
\* mask come back with equal sizes whenever the stored ones have equal sizes.
C5_SameSeedForBoth ==
    /\ ds_pc \in {"l73", "l74", "l75", "l76"}
          => (seed \in Seeds /\ rng.seed = seed)
    /\ ds_pc \in {"l74", "l76"} => rng = ManualSeed(seed)
    /\ ds_pc = "l76" => (Len(image.hist) = 1 /\ mask.hist = <<>>)
    /\ (ds_pc = "l77" /\ transform # NoTransform)
          => (Len(image.hist) = 1 /\ mask.hist = image.hist)
    /\ (Returned /\ transform # NoTransform)
          => /\ Len(ret.mask.hist) = 1
             /\ ret.mask.hist[1][1] = transform
             /\ ret.image.hist =
                   IF img_transform = NoTransform THEN ret.mask.hist
                   ELSE Append(ret.mask.hist, ret.image.hist[Len(ret.image.hist)])
             /\ img_transform # NoTransform
                   => ret.image.hist[Len(ret.image.hist)][1] = img_transform
             /\ StoredImage.size = StoredMask.size
                   => ret.image.size = ret.mask.size

C5_Witness ==
    /\ Returned
    /\ transform = "RandomApplyRot90" /\ img_transform = "AddNoise"
    /\ StoredImage.size = <<1, 2, 1>> /\ StoredMask.size = <<1, 2, 1>>
    /\ ret.mask.hist = << <<"RandomApplyRot90", 1, 1>> >>
    /\ ret.image.size = <<1, 1, 2>> /\ ret.mask.size = <<1, 1, 2>>

\* C6: no step of __len__ or __getitem__ writes samples, loaded_imgs,
\* loaded_masks, transform or img_transform (a transformed image or mask is
\* returned, never stored back), and an access without transforms returns
\* the stored pair, so two such accesses of an index return the same pair.
C6_CacheImmutable ==
    [][/\ Constructed => UNCHANGED dsFields
       /\ (ds_pc = "l79" /\ Untransformed)
             => (ret'.image = StoredImage /\ ret'.mask = StoredMask)]_vars

C6_Witness ==
    /\ Returned /\ transform = "RandomRot90" /\ img_transform = "AddNoise"
    /\ Len(samples) = 2
    /\ ret.image.size # StoredImage.size
    /\ StoredImage.hist = <<>> /\ StoredMask.hist = <<>>

====
